---------------------------- MODULE Spec2Model ----------------------------
(***************************************************************************)
(* Model of czech_educational_institutions.py: the chunking helper, the    *)
(* Nominatim location resolver, the university table builder, the registry *)
(* scraper with its detail-page parser, and the worker pool of main.       *)
(* Each part has its own variables and its own specification; the          *)
(* variables of the other parts stay at their idle values.                 *)
(***************************************************************************)
EXTENDS Integers, Sequences, FiniteSets, TLC

VARIABLES
    \* get_chunks
    ch_values, ch_n, ch_result, ch_pc,
    \* get_locations
    gl_addresses, gl_keep, gl_i, gl_places, gl_clock, gl_calls, gl_result, gl_pc,
    \* get_universities
    un_use_gmaps, un_table, un_i, un_last, un_private, un_default, un_places,
    un_pc,
    \* get_schools, parse_table_details
    gs_entries, gs_i, gs_browser, gs_left, gs_tables, gs_parse, gs_failed,
    gs_result, gs_pc,
    \* main: the scraping stage
    mn_processes, mn_cpus, mn_entries, mn_chunks, mn_pool, mn_queue,
    mn_workers, mn_runs, mn_pc

chVars == <<ch_values, ch_n, ch_result, ch_pc>>
glVars == <<gl_addresses, gl_keep, gl_i, gl_places, gl_clock, gl_calls,
            gl_result, gl_pc>>
unVars == <<un_use_gmaps, un_table, un_i, un_last, un_private, un_default,
            un_places, un_pc>>
gsVars == <<gs_entries, gs_i, gs_browser, gs_left, gs_tables, gs_parse,
            gs_failed, gs_result, gs_pc>>
mnVars == <<mn_processes, mn_cpus, mn_entries, mn_chunks, mn_pool, mn_queue,
            mn_workers, mn_runs, mn_pc>>
vars == <<chVars, glVars, unVars, gsVars, mnVars>>

\* None (and NaN) of Python: a missing geocoder hit, an unset cell, an unset
\* variable. Every optional value of the model is a record, as this one is.
None == [none |-> TRUE]

Min(a, b) == IF a < b THEN a ELSE b

\* All sequences over S of length at most len.
SeqsUpTo(S, len) == UNION {[1..l -> S] : l \in 0..len}

\* The elements of a sequence.
Range(s) == {s[j] : j \in DOMAIN s}

\* Python's s[a:b] for 0 <= a, b (out-of-range bounds are clamped).
Slice(s, a, b) == SubSeq(s, Min(a, Len(s)) + 1, Min(b, Len(s)))

(***************************************************************************)
(* get_chunks                                                              *)
(***************************************************************************)
MaxLen == 4        \* longest list given to get_chunks
MaxN == 3          \* largest chunk count
ChunkItems == {"a", "b"}

\* (i+1) * k + min(i, m): the end of the slice misses the remainder element.
get_chunks_short(values, n) ==
    LET k == Len(values) \div n
        m == Len(values) % n
    IN  [i \in 1..n |->
            << Slice(values, (i - 1) * k + Min(i - 1, m),
                             i * k + Min(i - 1, m)) >>]

\* k, m = divmod(len(values), n); item i (0-based i - 1) of the tuple is the
\* one-element list [values[i*k + min(i, m) : (i+1)*k + min(i+1, m)]].
get_chunks(values, n) ==
    LET k == Len(values) \div n
        m == Len(values) % n
    IN  [i \in 1..n |->
            << Slice(values, (i - 1) * k + Min(i - 1, m),
                             i * k + Min(i, m)) >>]

ChInit ==
    /\ ch_values \in SeqsUpTo(ChunkItems, MaxLen)
    /\ ch_n \in 1..MaxN
    /\ ch_result = <<>>
    /\ ch_pc = "call"

ChIdle ==
    /\ ch_values = <<>>
    /\ ch_n = 1
    /\ ch_result = <<>>
    /\ ch_pc = "idle"

GetChunks ==
    /\ ch_pc = "call"
    /\ ch_result' = get_chunks(ch_values, ch_n)
    /\ ch_pc' = "done"
    /\ UNCHANGED <<ch_values, ch_n>>
    /\ UNCHANGED <<glVars, unVars, gsVars, mnVars>>

(***************************************************************************)
(* get_locations                                                           *)
(***************************************************************************)
OneSecond == 2     \* the 1 second of lines 245-246, in clock ticks
MaxAddrs == 3      \* longest list of addresses
MaxDur == 3        \* longest geocoder round trip, in ticks
MaxOversleep == 1  \* time.sleep may return late by up to this many ticks

\* A text (an address, a name): a record, so that None compares with it.
Text(t) == [text |-> t]
Keys == {Text("k1"), Text("k2")}

\* The geopy Location the geocoder holds for a key: its formatted address and
\* its two coordinates, all three determined by the key.
Location(key) ==
    [address |-> [formatted |-> key],
     longitude |-> [lon |-> key],
     latitude |-> [lat |-> key]]

\* shapely's Point([x, y]).
Point(xy) == [x |-> xy[1], y |-> xy[2]]

\* d[k] = v on a dict.
Put(d, k, v) == [x \in (DOMAIN d) \cup {k} |-> IF x = k THEN v ELSE d[x]]

\* What nominatim.geocode(addr) can do: return a Location, return None, or
\* raise (a geopy or network error).
Answers(addr) == {[kind |-> "hit", value |-> Location(addr)],
                  [kind |-> "none", value |-> None]}

\* One pass of the loop body on the dict: a key already in places is skipped,
\* an answer is stored (None included), a raised error stores nothing.
GlIter(places, addr, out) ==
    IF addr \in DOMAIN places THEN places
    ELSE IF out.kind = "raise" THEN places
    ELSE Put(places, addr, out.value)

\* The comprehension without its "if place is not None" filter.
GeoPlaces_unfiltered(places) ==
    [k \in DOMAIN places |->
        IF places[k] = None THEN None
        ELSE Point(<<places[k].longitude, places[k].latitude>>)]

\* {addr: Point([place.longitude, place.latitude])
\*  for addr, place in places.items() if place is not None}
GeoPlaces(places) ==
    [k \in {a \in DOMAIN places : places[a] # None} |->
        Point(<<places[k].longitude, places[k].latitude>>)]

\* The value get_locations returns for the final dict.
GlReturnValue(places, keep) == IF ~keep THEN GeoPlaces(places) ELSE places

GlInit ==
    /\ gl_addresses \in SeqsUpTo(Keys, MaxAddrs)
    /\ gl_keep \in BOOLEAN
    /\ gl_i = 1
    /\ gl_places = <<>>
    /\ gl_clock = 0
    /\ gl_calls = <<>>
    /\ gl_result = None
    /\ gl_pc = "loop"

GlIdle ==
    /\ gl_addresses = <<>>
    /\ gl_keep = FALSE
    /\ gl_i = 0
    /\ gl_places = <<>>
    /\ gl_clock = 0
    /\ gl_calls = <<>>
    /\ gl_result = None
    /\ gl_pc = "idle"

notGl == <<chVars, unVars, gsVars, mnVars>>

GlAtKey == gl_pc = "loop" /\ gl_i <= Len(gl_addresses)

\* if addr in places: continue
GlSkip ==
    /\ GlAtKey
    /\ gl_addresses[gl_i] \in DOMAIN gl_places
    /\ gl_i' = gl_i + 1
    /\ UNCHANGED <<gl_addresses, gl_keep, gl_places, gl_clock, gl_calls,
                   gl_result, gl_pc>>
    /\ UNCHANGED notGl

\* geocode answers after d ticks; the answer is stored and the rest of the
\* second is slept (time.sleep returns no earlier than asked).
GlLookupAnswer ==
    /\ GlAtKey
    /\ gl_addresses[gl_i] \notin DOMAIN gl_places
    /\ \E out \in Answers(gl_addresses[gl_i]), d \in 0..MaxDur,
          over \in 0..MaxOversleep :
          /\ gl_calls' = Append(gl_calls, [key |-> gl_addresses[gl_i],
                                           start |-> gl_clock,
                                           kind |-> out.kind])
          /\ gl_places' = GlIter(gl_places, gl_addresses[gl_i], out)
          /\ gl_clock' = IF d < OneSecond
                         THEN gl_clock + d + (OneSecond - d) + over
                         ELSE gl_clock + d
    /\ gl_i' = gl_i + 1
    /\ UNCHANGED <<gl_addresses, gl_keep, gl_result, gl_pc>>
    /\ UNCHANGED notGl

\* geocode raises after d ticks: "except Exception: pass" goes straight to
\* the next key; nothing is stored and nothing is slept.
GlLookupRaise ==
    /\ GlAtKey
    /\ gl_addresses[gl_i] \notin DOMAIN gl_places
    /\ \E d \in 0..MaxDur :
          /\ gl_calls' = Append(gl_calls, [key |-> gl_addresses[gl_i],
                                           start |-> gl_clock,
                                           kind |-> "raise"])
          /\ gl_places' = GlIter(gl_places, gl_addresses[gl_i],
                                 [kind |-> "raise", value |-> None])
          /\ gl_clock' = gl_clock + d
    /\ gl_i' = gl_i + 1
    /\ UNCHANGED <<gl_addresses, gl_keep, gl_result, gl_pc>>
    /\ UNCHANGED notGl

\* "except KeyboardInterrupt: raise" ends the run without a result.
GlInterrupt ==
    /\ GlAtKey
    /\ gl_addresses[gl_i] \notin DOMAIN gl_places
    /\ gl_calls' = Append(gl_calls, [key |-> gl_addresses[gl_i],
                                     start |-> gl_clock,
                                     kind |-> "interrupt"])
    /\ gl_pc' = "interrupted"
    /\ UNCHANGED <<gl_addresses, gl_keep, gl_i, gl_places, gl_clock, gl_result>>
    /\ UNCHANGED notGl

\* After the loop: the Points of the non-None places, or the dict itself.
GlReturn ==
    /\ gl_pc = "loop"
    /\ gl_i > Len(gl_addresses)
    /\ gl_result' = GlReturnValue(gl_places, gl_keep)
    /\ gl_pc' = "done"
    /\ UNCHANGED <<gl_addresses, gl_keep, gl_i, gl_places, gl_clock, gl_calls>>
    /\ UNCHANGED notGl

GlNext == GlSkip \/ GlLookupAnswer \/ GlLookupRaise \/ GlInterrupt \/ GlReturn

\* get_locations run to its end on addresses, the geocoder doing outs[j] at
\* the j-th key: the loop body folded over the list.
RECURSIVE GlRun(_, _, _)
GlRun(addresses, outs, places) ==
    IF addresses = <<>> THEN places
    ELSE GlRun(Tail(addresses), Tail(outs),
               GlIter(places, Head(addresses), Head(outs)))

GetLocations(addresses, keep, outs) ==
    GlReturnValue(GlRun(addresses, outs, <<>>), keep)

\* What the geocoder can do for a key, a raised error included.
Outcomes(addr) == Answers(addr) \cup {[kind |-> "raise", value |-> None]}

(***************************************************************************)
(* get_university_type, get_universities                                   *)
(***************************************************************************)
MaxRows == 3       \* most rows of the counts sheet

\* A name of the sheet: word is the faculty marker its lower case holds.
Name(id, word) == [id |-> id, word |-> word]

\* The rows the sheet is drawn from: two summary rows (the second opens the
\* private schools), two universities, two faculties (one misspelt), one other.
SheetRows ==
    {[code |-> <<1, 0, 0, 0, 0>>, name |-> Name("Verejne", "")],
     [code |-> <<6, 0, 0, 0, 0>>, name |-> Name("Soukrome", "")],
     [code |-> <<1, 1, 0, 0, 0>>, name |-> Name("UK", "")],
     [code |-> <<1, 2, 0, 0, 0>>, name |-> Name("JU", "")],
     [code |-> <<1, 1, 1, 1, 0>>, name |-> Name("KTF", "fakulta")],
     [code |-> <<1, 1, 1, 2, 0>>, name |-> Name("ETF", "falulta")],
     [code |-> <<1, 1, 9, 0, 0>>, name |-> Name("Rektorat", "")]}

PrivateCode == <<6, 0, 0, 0, 0>>
IndicatorCodes == {<<6, 0, 0, 0, 0>>, <<0, 0, 0, 0, 0>>, <<1, 0, 0, 0, 0>>}

get_university_type(row) ==
    IF SubSeq(row.code, 3, 5) = <<0, 0, 0>>
    THEN IF row.code \in IndicatorCodes THEN "indicator" ELSE "university"
    ELSE IF row.name.word = "fakulta" \/ row.name.word = "falulta"
         THEN "faculty"
         ELSE "other"

\* The empty string ''.
EmptyText == [empty |-> TRUE]

\* A search string: f'{pre}, {own}', or own alone when pre is None.
FullName(pre, own) == [pre |-> pre, own |-> own]

CZ == FullName(None, Name("Czech Republic", ""))

\* A row of uni_counts once "type" is inserted; the later columns are unset.
TableRow(row) ==
    [code |-> row.code, name |-> row.name, type |-> get_university_type(row),
     faculty |-> None, university |-> None, other |-> None,
     private |-> None, full_name |-> None,
     address |-> None, geometry |-> None]

\* The loop body with "last_uni_row = row" run for other rows as well.
WalkStep_otherIsUniversity(row, last, private) ==
    LET priv == private \/ row.code = PrivateCode
        int == IF priv THEN 1 ELSE 0
    IN  IF last # None /\ row.type = "faculty"
        THEN [row |-> [row EXCEPT !.faculty = row.name,
                                  !.university = last.name,
                                  !.private = int,
                                  !.full_name = FullName(last.name, row.name)],
              last |-> last, private |-> priv, raised |-> FALSE]
        ELSE IF row.type \in {"university", "other"}
        THEN [row |-> [row EXCEPT !.university = row.name,
                                  !.other = IF row.type = "other"
                                            THEN row.name ELSE None,
                                  !.private = int,
                                  !.full_name = FullName(None, row.name)],
              last |-> row, private |-> priv, raised |-> FALSE]
        ELSE [row |-> [row EXCEPT !.private = int,
                                  !.full_name = FullName(None, row.name)],
              last |-> last, private |-> priv, raised |-> FALSE]

\* The body of the row walk on one row: the row as written back, the new
\* last_uni_row and private, and whether last_uni_row["name"] raised
\* (last_uni_row is None at an "other" row).
WalkStep(row, last, private) ==
    LET priv == private \/ row.code = PrivateCode
        int == IF priv THEN 1 ELSE 0
    IN  IF last # None /\ row.type = "faculty"
        THEN [row |-> [row EXCEPT !.faculty = row.name,
                                  !.university = last.name,
                                  !.private = int,
                                  !.full_name = FullName(last.name, row.name)],
              last |-> last, private |-> priv, raised |-> FALSE]
        ELSE IF row.type = "university"
        THEN [row |-> [row EXCEPT !.university = row.name,
                                  !.private = int,
                                  !.full_name = FullName(None, row.name)],
              last |-> row, private |-> priv, raised |-> FALSE]
        ELSE IF row.type = "other"
        THEN IF last = None
             THEN [row |-> [row EXCEPT !.other = row.name],
                   last |-> last, private |-> priv, raised |-> TRUE]
             ELSE [row |-> [row EXCEPT !.other = row.name,
                                       !.university = last.name,
                                       !.private = int,
                                       !.full_name = FullName(None, row.name)],
                   last |-> last, private |-> priv, raised |-> FALSE]
        ELSE [row |-> [row EXCEPT !.private = int,
                                  !.full_name = FullName(None, row.name)],
              last |-> last, private |-> priv, raised |-> FALSE]

RECURSIVE SetToSeq(_)
\* list(set(...)): the elements in some order.
SetToSeq(S) ==
    IF S = {} THEN <<>>
    ELSE LET x == CHOOSE y \in S : TRUE IN <<x>> \o SetToSeq(S \ {x})

\* only_names: the distinct search strings of the table.
OnlyNames(table) == SetToSeq({table[j].full_name : j \in DOMAIN table})

\* The places rows built from get_locations(only_names, keep_orig_response=True).
NominatimPlaces(pre_places, default_point) ==
    {[full_name |-> k,
      address |-> IF pre_places[k] = None THEN EmptyText
                  ELSE pre_places[k].address,
      geometry |-> IF pre_places[k] = None THEN default_point
                   ELSE Point(<<pre_places[k].longitude,
                                pre_places[k].latitude>>)]
     : k \in DOMAIN pre_places}

\* The places rows built from the googlemaps answers: a name with no hit gets
\* no row.
GmapsPlaces(names, outs) ==
    {[full_name |-> names[j],
      address |-> outs[j].value.address,
      geometry |-> Point(<<outs[j].value.longitude, outs[j].value.latitude>>)]
     : j \in {l \in DOMAIN names : outs[l].kind = "hit"}}

\* uni_counts.merge(places_gdf, how='left', on='full_name')
LeftMerge(table, places) ==
    [j \in DOMAIN table |->
        LET hits == {p \in places : p.full_name = table[j].full_name}
        IN  IF hits = {} THEN table[j]
            ELSE LET p == CHOOSE q \in hits : TRUE
                 IN  [table[j] EXCEPT !.address = p.address,
                                      !.geometry = p.geometry]]

UnInit ==
    /\ un_use_gmaps \in BOOLEAN
    /\ \E rows \in SeqsUpTo(SheetRows, MaxRows) :
          /\ rows # <<>>
          /\ un_table = [j \in DOMAIN rows |-> TableRow(rows[j])]
    /\ un_i = 1
    /\ un_last = None
    /\ un_private = FALSE
    /\ un_default = None
    /\ un_places = {}
    /\ un_pc = "walk"

UnIdle ==
    /\ un_use_gmaps = FALSE
    /\ un_table = <<>>
    /\ un_i = 0
    /\ un_last = None
    /\ un_private = FALSE
    /\ un_default = None
    /\ un_places = {}
    /\ un_pc = "idle"

notUn == <<chVars, glVars, gsVars, mnVars>>

\* One pass of "for i, row in uni_counts.iterrows()".
UnWalkRow ==
    /\ un_pc = "walk"
    /\ un_i <= Len(un_table)
    /\ LET step == WalkStep(un_table[un_i], un_last, un_private)
       IN  /\ un_table' = [un_table EXCEPT ![un_i] = step.row]
           /\ un_last' = step.last
           /\ un_private' = step.private
           /\ un_pc' = IF step.raised THEN "raised" ELSE "walk"
           /\ un_i' = IF step.raised THEN un_i ELSE un_i + 1
    /\ UNCHANGED <<un_use_gmaps, un_default, un_places>>
    /\ UNCHANGED notUn

\* The walk is over: the indicator rows are dropped.
UnDropIndicators ==
    /\ un_pc = "walk"
    /\ un_i > Len(un_table)
    /\ un_table' = SelectSeq(un_table, LAMBDA r : r.type # "indicator")
    /\ un_pc' = "default"
    /\ UNCHANGED <<un_use_gmaps, un_i, un_last, un_private, un_default,
                   un_places>>
    /\ UNCHANGED notUn

\* default_point = get_locations([cz])[cz]; a KeyError when cz is unresolved.
UnDefaultPoint ==
    /\ un_pc = "default"
    /\ \E out \in Outcomes(CZ) :
          LET got == GetLocations(<<CZ>>, FALSE, <<out>>)
          IN  IF CZ \in DOMAIN got
              THEN un_default' = got[CZ] /\ un_pc' = "geocode"
              ELSE un_default' = un_default /\ un_pc' = "raised"
    /\ UNCHANGED <<un_use_gmaps, un_table, un_i, un_last, un_private, un_places>>
    /\ UNCHANGED notUn

\* The else branch: Nominatim through get_locations, keeping the responses.
UnGeocodeNominatim ==
    /\ un_pc = "geocode"
    /\ ~un_use_gmaps
    /\ LET names == OnlyNames(un_table)
       IN  \E kinds \in [DOMAIN names -> {"hit", "none", "raise"}] :
              LET outs == [j \in DOMAIN names |->
                             [kind |-> kinds[j],
                              value |-> IF kinds[j] = "hit"
                                        THEN Location(names[j]) ELSE None]]
              IN  un_places' = NominatimPlaces(
                                   GetLocations(names, TRUE, outs), un_default)
    /\ un_pc' = "merge"
    /\ UNCHANGED <<un_use_gmaps, un_table, un_i, un_last, un_private, un_default>>
    /\ UNCHANGED notUn

\* The googlemaps branch: every name is geocoded once, a list of hits or an
\* empty list comes back.
UnGeocodeGmaps ==
    /\ un_pc = "geocode"
    /\ un_use_gmaps
    /\ LET names == OnlyNames(un_table)
       IN  \E kinds \in [DOMAIN names -> {"hit", "empty"}] :
              LET outs == [j \in DOMAIN names |->
                             [kind |-> kinds[j],
                              value |-> IF kinds[j] = "hit"
                                        THEN Location(names[j]) ELSE None]]
              IN  un_places' = GmapsPlaces(names, outs)
    /\ un_pc' = "merge"
    /\ UNCHANGED <<un_use_gmaps, un_table, un_i, un_last, un_private, un_default>>
    /\ UNCHANGED notUn

\* gmaps.geocode raises (nothing catches it).
UnGeocodeGmapsRaise ==
    /\ un_pc = "geocode"
    /\ un_use_gmaps
    /\ OnlyNames(un_table) # <<>>
    /\ un_pc' = "raised"
    /\ UNCHANGED <<un_use_gmaps, un_table, un_i, un_last, un_private, un_default,
                   un_places>>
    /\ UNCHANGED notUn

\* The left merge of the places onto the rows; the table is returned.
UnMerge ==
    /\ un_pc = "merge"
    /\ un_table' = LeftMerge(un_table, un_places)
    /\ un_pc' = "done"
    /\ UNCHANGED <<un_use_gmaps, un_i, un_last, un_private, un_default, un_places>>
    /\ UNCHANGED notUn

UnNext ==
    \/ UnWalkRow
    \/ UnDropIndicators
    \/ UnDefaultPoint
    \/ UnGeocodeNominatim
    \/ UnGeocodeGmaps
    \/ UnGeocodeGmapsRaise
    \/ UnMerge

(***************************************************************************)
(* parse_table_details, get_schools                                        *)
(***************************************************************************)
MaxEntries == 2    \* most entries given to get_schools
MaxDetails == 2    \* most detail links on one result page
MaxTables == 4     \* most tables on one detail page

Entries == {<<"ZS", "Praha">>, <<"SS", "Brno">>}

\* Rows of a raw table: an all-NaN row, the row of column names, data rows.
AllNaN == [nan |-> TRUE]
HeaderRow == [header |-> TRUE]
NaN == "<NaN>"
School(id) ==
    IF id = "s1"
    THEN [school |-> id, Obec |-> "Praha 5", Ulice |-> NaN, cp |-> NaN,
          co |-> NaN]
    ELSE [school |-> id, Obec |-> "Brno", Ulice |-> "Hlavni", cp |-> "12",
          co |-> "3"]

\* The tables a detail page can hold in its 3rd or 4th place.
InfoTables ==
    {<<HeaderRow, School("s1")>>,
     <<AllNaN, HeaderRow, School("s1"), School("s2")>>,
     <<HeaderRow>>,
     <<AllNaN>>,
     <<>>}

\* A page table that is only layout.
LayoutTable == <<[layout |-> TRUE]>>

\* What pd.read_html gives for a detail page: k tables, table t in the
\* place the parser reads (the 3rd of 3, else the 4th), layout elsewhere.
PageWith(k, t) ==
    [j \in 1..k |-> IF j = (IF k = 3 THEN 3 ELSE 4) THEN t ELSE LayoutTable]

DetailPages == {PageWith(k, t) : k \in 0..MaxTables, t \in InfoTables}

\* pd.DataFrame()
EmptyFrame == [columns |-> <<>>, rows |-> <<>>]

\* dropna(how='all')
DropAllNaN(table) == SelectSeq(table, LAMBDA r : r # AllNaN)

\* The parser with "except (ValueError, IndexError)".
parse_table_details_lenient(raw_tables) ==
    IF Len(raw_tables) = 0
    THEN [raised |-> FALSE, table |-> EmptyFrame]
    ELSE LET tabnum == IF Len(raw_tables) = 3 THEN 2 ELSE 3
         IN  IF tabnum + 1 > Len(raw_tables)
             THEN [raised |-> FALSE, table |-> EmptyFrame]
             ELSE LET table == DropAllNaN(raw_tables[tabnum + 1])
                  IN  IF table = <<>>
                      THEN [raised |-> FALSE, table |-> EmptyFrame]
                      ELSE [raised |-> FALSE,
                            table |-> [columns |-> <<Head(table)>>,
                                       rows |-> Tail(table)]]

\* parse_table_details on what pd.read_html gives for the page source (no
\* table on the page: read_html raises ValueError, which is caught).
\* raw_tables[tabnum] past the end and table.iloc[0] of an empty table raise
\* IndexError, which is not caught.
parse_table_details(raw_tables) ==
    IF Len(raw_tables) = 0
    THEN [raised |-> FALSE, table |-> EmptyFrame]
    ELSE LET tabnum == IF Len(raw_tables) = 3 THEN 2 ELSE 3
         IN  IF tabnum + 1 > Len(raw_tables)
             THEN [raised |-> TRUE, table |-> EmptyFrame]
             ELSE LET table == DropAllNaN(raw_tables[tabnum + 1])
                  IN  IF table = <<>>
                      THEN [raised |-> TRUE, table |-> EmptyFrame]
                      ELSE [raised |-> FALSE,
                            table |-> [columns |-> <<Head(table)>>,
                                       rows |-> Tail(table)]]

\* A browser session: open or closed, the page it shows, whether it is
\* switched into mainFrame.
Browser(open, page, frame) == [open |-> open, page |-> page, frame |-> frame]

\* get_browser(); browser.get(URL); browser.switch_to.frame(mainFrame)
FreshForm == Browser(TRUE, "form", TRUE)

\* Where close / get_browser / get / switch_to.frame leave the variable
\* browser when one of them raises: the old session still open, the old
\* session closed, a new blank session, the form outside its frame.
ResetFailures(b) ==
    {b,
     Browser(FALSE, b.page, b.frame),
     Browser(TRUE, "blank", FALSE),
     Browser(TRUE, "form", FALSE)}

\* The form's elements are there to be found.
FormReady(b) == b.open /\ b.page = "form" /\ b.frame

\* pd.concat(tables).drop_duplicates(): the distinct rows of the tables.
ConcatRows(tables) == UNION {Range(tables[j].rows) : j \in DOMAIN tables}

\* glue_address: the address as the sequence of the pieces it is glued from.
glue_address(row) ==
    <<row.Obec, ",">>
    \o (IF row.Ulice = NaN THEN <<>> ELSE <<" ", row.Ulice>>)
    \o (IF row.cp = NaN THEN <<>> ELSE <<" ", row.cp>>)
    \o (IF row.co = NaN THEN <<>> ELSE <<"/", row.co>>)

\* replace(r'Praha \d+', 'Praha'), on the pieces that are a Praha district.
PrahaDistricts == {"Praha 5"}
NormalisePraha(addr) ==
    [j \in DOMAIN addr |-> IF addr[j] \in PrahaDistricts THEN "Praha"
                           ELSE addr[j]]

\* bigtable['address']: every row with its glued, normalised address.
WithAddress(rows) ==
    {[row |-> r, address |-> NormalisePraha(glue_address(r))] : r \in rows}

GsInit ==
    /\ gs_entries \in SeqsUpTo(Entries, MaxEntries)
    /\ gs_i = 1
    /\ gs_browser = Browser(FALSE, "blank", FALSE)
    /\ gs_left = 0
    /\ gs_tables = <<>>
    /\ gs_parse = None
    /\ gs_failed = <<>>
    /\ gs_result = None
    /\ gs_pc = "open"

GsIdle ==
    /\ gs_entries = <<>>
    /\ gs_i = 0
    /\ gs_browser = Browser(FALSE, "blank", FALSE)
    /\ gs_left = 0
    /\ gs_tables = <<>>
    /\ gs_parse = None
    /\ gs_failed = <<>>
    /\ gs_result = None
    /\ gs_pc = "idle"

notGs == <<chVars, glVars, unVars, mnVars>>

\* "except Exception as e": the failure is printed and the loop goes on to
\* the next entry with the browser as it was left.
GsExcept(b) ==
    /\ gs_browser' = b
    /\ gs_failed' = Append(gs_failed, gs_entries[gs_i])
    /\ gs_i' = gs_i + 1
    /\ gs_left' = 0
    /\ gs_pc' = "entry"

\* tables = []; the first browser is opened on the form.
GsOpen ==
    /\ gs_pc = "open"
    /\ gs_browser' = FreshForm
    /\ gs_pc' = "entry"
    /\ UNCHANGED <<gs_entries, gs_i, gs_left, gs_tables, gs_parse, gs_failed,
                   gs_result>>
    /\ UNCHANGED notGs

\* Opening the first browser raises, outside any try.
GsOpenRaise ==
    /\ gs_pc = "open"
    /\ gs_pc' = "open_raised"
    /\ UNCHANGED <<gs_entries, gs_i, gs_browser, gs_left, gs_tables, gs_parse,
                   gs_failed, gs_result>>
    /\ UNCHANGED notGs

GsAtEntry == gs_pc = "entry" /\ gs_i <= Len(gs_entries)

\* The region and the type are selected, the row count typed, the form
\* submitted: the page shows the results or the no-results marker.
GsSubmit ==
    /\ GsAtEntry
    /\ FormReady(gs_browser)
    /\ \E page \in {"results", "noresult"} :
          gs_browser' = Browser(TRUE, page, TRUE)
    /\ gs_pc' = "submitted"
    /\ UNCHANGED <<gs_entries, gs_i, gs_left, gs_tables, gs_parse, gs_failed,
                   gs_result>>
    /\ UNCHANGED notGs

\* A step of the form filling raises: an element is not found (always so
\* when the form is not there), a click or the typing fails.
GsSubmitRaise ==
    /\ GsAtEntry
    /\ GsExcept(gs_browser)
    /\ UNCHANGED <<gs_entries, gs_tables, gs_parse, gs_result>>
    /\ UNCHANGED notGs

\* NORESULT is in the page: a new browser is opened on the form; continue.
GsNoResult ==
    /\ gs_pc = "submitted"
    /\ gs_browser.page = "noresult"
    /\ gs_browser' = FreshForm
    /\ gs_i' = gs_i + 1
    /\ gs_pc' = "entry"
    /\ UNCHANGED <<gs_entries, gs_left, gs_tables, gs_parse, gs_failed, gs_result>>
    /\ UNCHANGED notGs

\* The detail links of the result page are collected.
GsCollectDetails ==
    /\ gs_pc = "submitted"
    /\ gs_browser.page = "results"
    /\ gs_left' \in 0..MaxDetails
    /\ gs_pc' = "details"
    /\ UNCHANGED <<gs_entries, gs_i, gs_browser, gs_tables, gs_parse, gs_failed,
                   gs_result>>
    /\ UNCHANGED notGs

\* Reading the page source or the links raises (an <a> without href makes
\* "DETAIL in None" a TypeError).
GsCollectRaise ==
    /\ gs_pc = "submitted"
    /\ GsExcept(gs_browser)
    /\ UNCHANGED <<gs_entries, gs_tables, gs_parse, gs_result>>
    /\ UNCHANGED notGs

\* browser.get(detail); parse_table_details; tables.append; history.go(-1).
\* An error of the parser leaves the browser on the detail page.
GsVisitDetail ==
    /\ gs_pc = "details"
    /\ gs_left > 0
    /\ \E page \in DetailPages :
          LET got == parse_table_details(page)
          IN  /\ gs_parse' = [page |-> page, raised |-> got.raised,
                              table |-> got.table]
              /\ IF got.raised
                 THEN /\ GsExcept(Browser(TRUE, "detail", FALSE))
                      /\ UNCHANGED gs_tables
                 ELSE /\ gs_tables' = Append(gs_tables, got.table)
                      /\ gs_browser' = Browser(TRUE, "results", FALSE)
                      /\ gs_left' = gs_left - 1
                      /\ UNCHANGED <<gs_i, gs_failed, gs_pc>>
    /\ UNCHANGED <<gs_entries, gs_result>>
    /\ UNCHANGED notGs

\* browser.get(detail) or the history script raises.
GsVisitRaise ==
    /\ gs_pc = "details"
    /\ gs_left > 0
    /\ \E b \in {gs_browser, Browser(TRUE, "detail", FALSE)} :
          GsExcept(b)
    /\ UNCHANGED <<gs_entries, gs_tables, gs_parse, gs_result>>
    /\ UNCHANGED notGs

\* Every detail is visited: the browser is closed and a new one opened.
GsReset ==
    /\ gs_pc = "details"
    /\ gs_left = 0
    /\ gs_browser' = FreshForm
    /\ gs_i' = gs_i + 1
    /\ gs_pc' = "entry"
    /\ UNCHANGED <<gs_entries, gs_left, gs_tables, gs_parse, gs_failed, gs_result>>
    /\ UNCHANGED notGs

\* Closing the browser or opening the new one raises, after no results or
\* after the last detail.
GsResetRaise ==
    /\ \/ gs_pc = "submitted" /\ gs_browser.page = "noresult"
       \/ gs_pc = "details" /\ gs_left = 0
    /\ \E b \in ResetFailures(gs_browser) : GsExcept(b)
    /\ UNCHANGED <<gs_entries, gs_tables, gs_parse, gs_result>>
    /\ UNCHANGED notGs

\* After the loop: pd.concat raises ValueError on an empty list of tables;
\* else the distinct rows with their address are returned.
GsFinish ==
    /\ gs_pc = "entry"
    /\ gs_i > Len(gs_entries)
    /\ IF gs_tables = <<>>
       THEN gs_pc' = "raised" /\ UNCHANGED gs_result
       ELSE gs_pc' = "done" /\ gs_result' = WithAddress(ConcatRows(gs_tables))
    /\ UNCHANGED <<gs_entries, gs_i, gs_browser, gs_left, gs_tables, gs_parse,
                   gs_failed>>
    /\ UNCHANGED notGs

GsNext ==
    \/ GsOpen
    \/ GsOpenRaise
    \/ GsSubmit
    \/ GsSubmitRaise
    \/ GsNoResult
    \/ GsCollectDetails
    \/ GsCollectRaise
    \/ GsVisitDetail
    \/ GsVisitRaise
    \/ GsReset
    \/ GsResetRaise
    \/ GsFinish

(***************************************************************************)
(* main: entries, chunks, the worker pool                                  *)
(***************************************************************************)
MaxProcesses == 5  \* largest processes argument
MaxCpus == 2       \* largest os.cpu_count()
MaxOptions == 2    \* most school types, and most regions, of the form

\* The batches Pool.starmap makes of the tasks 1..len for a pool of size pool:
\* chunksize, extra = divmod(len, pool * 4), one more when extra is not 0.
TaskBatches(len, pool) ==
    LET chunksize == (len \div (pool * 4)) +
                     (IF len % (pool * 4) # 0 THEN 1 ELSE 0)
        count == IF chunksize = 0 THEN 0
                 ELSE (len + chunksize - 1) \div chunksize
    IN  [b \in 1..count |->
            [j \in 1..Min(chunksize, len - (b - 1) * chunksize) |->
                (b - 1) * chunksize + j]]

\* itertools.product(school_types, regions) for nt types and nr regions.
Product(nt, nr) ==
    [j \in 1..(nt * nr) |-> <<((j - 1) \div nr) + 1, ((j - 1) % nr) + 1>>]

\* The orders random.shuffle can leave a list in.
Shuffles(s) ==
    {[j \in DOMAIN s |-> s[f[j]]] :
        f \in {g \in [DOMAIN s -> DOMAIN s] :
                  \A a, b \in DOMAIN s : g[a] = g[b] => a = b}}

MnInit ==
    /\ mn_processes \in 1..MaxProcesses
    /\ mn_cpus \in 1..MaxCpus
    /\ \E nt \in 1..MaxOptions, nr \in 1..MaxOptions :
          mn_entries = Product(nt, nr)
    /\ mn_chunks = <<>>
    /\ mn_pool = 0
    /\ mn_queue = <<>>
    /\ mn_workers = <<>>
    /\ mn_runs = <<>>
    /\ mn_pc = "entries"

MnIdle ==
    /\ mn_processes = 1
    /\ mn_cpus = 1
    /\ mn_entries = <<>>
    /\ mn_chunks = <<>>
    /\ mn_pool = 0
    /\ mn_queue = <<>>
    /\ mn_workers = <<>>
    /\ mn_runs = <<>>
    /\ mn_pc = "idle"

notMn == <<chVars, glVars, unVars, gsVars>>

\* random.shuffle(entries); chunks = get_chunks(values=entries, n=processes)
MnShuffleAndChunk ==
    /\ mn_pc = "entries"
    /\ mn_entries' \in Shuffles(mn_entries)
    /\ mn_chunks' = get_chunks(mn_entries', mn_processes)
    /\ mn_pc' = "chunks"
    /\ UNCHANGED <<mn_processes, mn_cpus, mn_pool, mn_queue, mn_workers, mn_runs>>
    /\ UNCHANGED notMn

\* with Pool() as pool: no size is given, so the pool has os.cpu_count()
\* workers; starmap queues the chunks in batches.
MnPoolStarmap ==
    /\ mn_pc = "chunks"
    /\ mn_pool' = mn_cpus
    /\ mn_workers' = [w \in 1..mn_cpus |-> <<>>]
    /\ mn_queue' = TaskBatches(Len(mn_chunks), mn_cpus)
    /\ mn_pc' = "map"
    /\ UNCHANGED <<mn_processes, mn_cpus, mn_entries, mn_chunks, mn_runs>>
    /\ UNCHANGED notMn

\* An idle worker takes the next batch.
MnTake(w) ==
    /\ mn_pc = "map"
    /\ mn_workers[w] = <<>>
    /\ mn_queue # <<>>
    /\ mn_workers' = [mn_workers EXCEPT ![w] = Head(mn_queue)]
    /\ mn_queue' = Tail(mn_queue)
    /\ UNCHANGED <<mn_processes, mn_cpus, mn_entries, mn_chunks, mn_pool,
                   mn_runs, mn_pc>>
    /\ UNCHANGED notMn

\* A worker runs get_schools(*chunk) for the next chunk of its batch: the
\* chunk's one item is the list of entries; get_schools returns a table or
\* raises (it always raises on no entries: there is nothing to concatenate).
\* A raise ends the batch: its remaining chunks are not run.
MnRun(w) ==
    /\ mn_pc = "map"
    /\ mn_workers[w] # <<>>
    /\ LET c == Head(mn_workers[w])
           args == mn_chunks[c]
       IN  \E out \in IF Len(args) # 1 \/ args[1] = <<>>
                      THEN {"raised"} ELSE {"table", "raised"} :
              /\ mn_runs' = Append(mn_runs, [chunk |-> c, worker |-> w,
                                             entries |-> IF Len(args) = 1
                                                         THEN args[1] ELSE <<>>,
                                             out |-> out])
              /\ mn_workers' = [mn_workers EXCEPT
                                   ![w] = IF out = "raised" THEN <<>>
                                          ELSE Tail(@)]
    /\ UNCHANGED <<mn_processes, mn_cpus, mn_entries, mn_chunks, mn_pool,
                   mn_queue, mn_pc>>
    /\ UNCHANGED notMn

\* starmap returns the tables, or raises what a get_schools raised.
MnCollect ==
    /\ mn_pc = "map"
    /\ mn_queue = <<>>
    /\ \A w \in DOMAIN mn_workers : mn_workers[w] = <<>>
    /\ mn_pc' = IF \E j \in DOMAIN mn_runs : mn_runs[j].out = "raised"
                THEN "raised" ELSE "collected"
    /\ UNCHANGED <<mn_processes, mn_cpus, mn_entries, mn_chunks, mn_pool,
                   mn_queue, mn_workers, mn_runs>>
    /\ UNCHANGED notMn

MnNext ==
    \/ MnShuffleAndChunk
    \/ MnPoolStarmap
    \/ \E w \in DOMAIN mn_workers : MnTake(w)
    \/ \E w \in DOMAIN mn_workers : MnRun(w)
    \/ MnCollect

(***************************************************************************)
(* Specifications                                                          *)
(***************************************************************************)
InitChunks == ChInit /\ GlIdle /\ UnIdle /\ GsIdle /\ MnIdle
NextChunks == GetChunks
SpecChunks == InitChunks /\ [][NextChunks]_vars

InitLocations == GlInit /\ ChIdle /\ UnIdle /\ GsIdle /\ MnIdle
NextLocations == GlNext
SpecLocations == InitLocations /\ [][NextLocations]_vars

InitUniversities == UnInit /\ ChIdle /\ GlIdle /\ GsIdle /\ MnIdle
NextUniversities == UnNext
SpecUniversities == InitUniversities /\ [][NextUniversities]_vars

InitSchools == GsInit /\ ChIdle /\ GlIdle /\ UnIdle /\ MnIdle
NextSchools == GsNext
SpecSchools == InitSchools /\ [][NextSchools]_vars

InitMain == MnInit /\ ChIdle /\ GlIdle /\ UnIdle /\ GsIdle
NextMain == MnNext
SpecMain == InitMain /\ [][NextMain]_vars

(***************************************************************************)
(* Claims about get_chunks                                                 *)
(***************************************************************************)
RECURSIVE Flatten(_)
\* The concatenation, in order, of the sequences in ss.
Flatten(ss) == IF ss = <<>> THEN <<>> ELSE Head(ss) \o Flatten(Tail(ss))

\* The sizes are near-equal and the len mod n larger ones come first.
SizesLargerFirst(sizes, len, n) ==
    /\ \A i, j \in DOMAIN sizes : sizes[i] - sizes[j] <= 1
    /\ \A i \in DOMAIN sizes :
          sizes[i] = (len \div n) + (IF i <= len % n THEN 1 ELSE 0)

\* C1 as stated: the n items get_chunks yields are themselves the chunks:
\* their concatenation is values, their sizes are near-equal, larger first.
C1_ItemsAreChunks ==
    ch_pc = "done" =>
        /\ Len(ch_result) = ch_n
        /\ Flatten(ch_result) = ch_values
        /\ SizesLargerFirst([i \in DOMAIN ch_result |-> Len(ch_result[i])],
                            Len(ch_values), ch_n)

\* C1 amended: get_chunks yields n items, each a one-element list holding a
\* chunk; the held chunks concatenate, in order, to values, their sizes differ
\* by at most one and the len(values) mod n larger chunks come first.
C1_WrappedChunksPartition ==
    ch_pc = "done" =>
        /\ Len(ch_result) = ch_n
        /\ \A i \in DOMAIN ch_result : Len(ch_result[i]) = 1
        /\ Flatten([i \in DOMAIN ch_result |-> ch_result[i][1]]) = ch_values
        /\ SizesLargerFirst([i \in DOMAIN ch_result |-> Len(ch_result[i][1])],
                            Len(ch_values), ch_n)

\* A list whose length is no multiple of n has been split (uneven chunks).
C1_Witness ==
    /\ ch_pc = "done"
    /\ Len(ch_values) = 4
    /\ ch_n = 3
    /\ ch_values[1] # ch_values[2]
    /\ Len(ch_result[1][1]) = 2
    /\ Len(ch_result[3][1]) = 1

(***************************************************************************)
(* Claims about get_locations                                              *)
(***************************************************************************)
\* C2: every two consecutive geocoder lookups start at least one second
\* apart, whatever the first one's outcome.
C2_LookupsOneSecondApart ==
    \A j \in 1..(Len(gl_calls) - 1) :
        gl_calls[j + 1].start - gl_calls[j].start >= OneSecond

\* C3: each unique key is sent to the geocoder at most once.
C3_EachKeyQueriedOnce ==
    \A j, l \in DOMAIN gl_calls :
        gl_calls[j].key = gl_calls[l].key => j = l

\* A key was looked up and some lookup of it returned a Location.
GlHit(k) == \E j \in DOMAIN gl_calls :
                gl_calls[j].key = k /\ gl_calls[j].kind = "hit"
\* A key's lookup found nothing.
GlNoHit(k) == \E j \in DOMAIN gl_calls :
                gl_calls[j].key = k /\ gl_calls[j].kind = "none"
\* A key was looked up and no lookup of it returned a Location.
GlFailed(k) == (\E j \in DOMAIN gl_calls : gl_calls[j].key = k) /\ ~GlHit(k)

\* C4 as stated: whatever the mode, the returned mapping has only input keys,
\* no null value, and no key whose lookup failed.
C4_ResultNeverNull ==
    gl_pc = "done" =>
        /\ DOMAIN gl_result \subseteq Range(gl_addresses)
        /\ \A k \in DOMAIN gl_result : gl_result[k] # None
        /\ \A k \in Range(gl_addresses) : GlFailed(k) => k \notin DOMAIN gl_result

\* C4 amended: with keep_orig_response false the returned mapping has only
\* input keys, every key present maps to the Point of its Location, and every
\* key none of whose lookups returned a Location is absent; with
\* keep_orig_response true a key whose lookup found nothing is present and
\* maps to None, and only a key whose lookups all raised is absent.
C4_ResultByMode ==
    gl_pc = "done" =>
        /\ DOMAIN gl_result \subseteq Range(gl_addresses)
        /\ ~gl_keep =>
              /\ \A k \in DOMAIN gl_result :
                    /\ gl_result[k] # None
                    /\ gl_result[k] = Point(<<Location(k).longitude,
                                              Location(k).latitude>>)
              /\ \A k \in Range(gl_addresses) :
                    GlFailed(k) => k \notin DOMAIN gl_result
        /\ gl_keep =>
              /\ \A k \in Range(gl_addresses) :
                    GlNoHit(k) => k \in DOMAIN gl_result /\ gl_result[k] = None
              /\ \A k \in Range(gl_addresses) :
                    (GlFailed(k) /\ ~GlNoHit(k)) => k \notin DOMAIN gl_result

\* A default-mode run returned with one key resolved, one key that found
\* nothing and so is absent.
C4_Witness ==
    /\ gl_pc = "done"
    /\ ~gl_keep
    /\ GlHit(Text("k1"))
    /\ GlNoHit(Text("k2"))
    /\ DOMAIN gl_result = {Text("k1")}

(***************************************************************************)
(* Claims about get_universities                                           *)
(***************************************************************************)
\* The row walk has run over every row.
UnWalked == un_pc \in {"default", "geocode", "merge", "done"}
           \/ (un_pc = "walk" /\ un_i > Len(un_table))

\* The name of the nearest university row before row j, None without one.
NearestUniversity(table, j) ==
    LET before == {l \in 1..(j - 1) : table[l].type = "university"}
    IN  IF before = {} THEN None
        ELSE table[CHOOSE l \in before : \A l2 \in before : l2 <= l].name

\* C5 as stated: after the walk every faculty or other row has a non-null
\* university, the name of the nearest preceding university row.
C5_EveryRowHasUniversity ==
    UnWalked =>
        \A j \in DOMAIN un_table :
            un_table[j].type \in {"faculty", "other"} =>
                /\ un_table[j].university # None
                /\ un_table[j].university = NearestUniversity(un_table, j)

\* C5 amended: after the walk every faculty or other row that has a
\* university row before it has the name of the nearest such row as its
\* university (indicator rows in between change nothing); a faculty row with
\* no university row before it is left without a university.
C5_UniversityOfNearestPreceding ==
    UnWalked =>
        \A j \in DOMAIN un_table :
            un_table[j].type \in {"faculty", "other"} =>
                /\ un_table[j].university = NearestUniversity(un_table, j)
                /\ (\E l \in 1..(j - 1) : un_table[l].type = "university")
                      => un_table[j].university # None

\* A walk that met a university, then an indicator row, then a faculty, which
\* now names that university.
C5_Witness ==
    /\ un_pc = "walk"
    /\ un_i > Len(un_table)
    /\ Len(un_table) = 3
    /\ un_table[1].type = "university"
    /\ un_table[2].type = "indicator"
    /\ un_table[3].type = "faculty"
    /\ un_table[3].university = un_table[1].name

\* C8: every row of the returned table has a geometry: the point resolved
\* for its search string, or else the country's default point.
C8_EveryRowHasGeometry ==
    un_pc = "done" =>
        \A j \in DOMAIN un_table :
            /\ un_table[j].geometry # None
            /\ \/ un_table[j].geometry =
                     Point(<<Location(un_table[j].full_name).longitude,
                             Location(un_table[j].full_name).latitude>>)
               \/ un_table[j].geometry = un_default

(***************************************************************************)
(* Claims about get_schools and parse_table_details                        *)
(***************************************************************************)
\* C6: whatever the entries' outcomes, get_schools is not aborted: it ends by
\* returning a table, which holds the rows of every table that was parsed.
C6_RunReturnsCollectedTables ==
    /\ gs_pc # "raised"
    /\ gs_pc = "done" =>
          \A j \in DOMAIN gs_tables :
              \A r \in Range(gs_tables[j].rows) :
                  \E b \in gs_result : b.row = r

\* The table the parser is to read is there and has a row left after dropna.
LayoutAsExpected(page) ==
    LET place == IF Len(page) = 3 THEN 3 ELSE 4
    IN  place <= Len(page) /\ DropAllNaN(page[place]) # <<>>

\* C7: parse_table_details never raises; it returns the 3rd table of 3 and
\* the 4th otherwise, the first row as header, and the empty table when the
\* page's layout is not the expected one.
C7_ParserNeverRaises ==
    gs_parse # None =>
        /\ ~gs_parse.raised
        /\ LayoutAsExpected(gs_parse.page) =>
              LET t == DropAllNaN(gs_parse.page[IF Len(gs_parse.page) = 3
                                                THEN 3 ELSE 4])
              IN  gs_parse.table = [columns |-> <<Head(t)>>, rows |-> Tail(t)]
        /\ ~LayoutAsExpected(gs_parse.page) => gs_parse.table = EmptyFrame

\* C10: every entry starts on the freshly loaded form, inside its frame, in
\* an open browser.
C10_EntryStartsOnFreshForm ==
    GsAtEntry => gs_browser = FreshForm

(***************************************************************************)
(* Claims about main                                                       *)
(***************************************************************************)
\* get_schools has run exactly once per chunk and every entry was handled by
\* exactly one run.
MnEachChunkOnce ==
    /\ \A c \in DOMAIN mn_chunks :
          Cardinality({j \in DOMAIN mn_runs : mn_runs[j].chunk = c}) = 1
    /\ \A e \in Range(mn_entries) :
          Cardinality({j \in DOMAIN mn_runs :
                          e \in Range(mn_runs[j].entries)}) = 1

\* C9: the pool has processes workers, get_schools runs exactly once per
\* chunk, and every entry is handled by exactly one worker.
C9_PoolSizeIsProcesses ==
    /\ mn_pc \in {"map", "collected", "raised"} => mn_pool = mn_processes
    /\ mn_pc \in {"collected", "raised"} => MnEachChunkOnce

=============================================================================
